---- MODULE Spec2Model ----
(***************************************************************************)
(* A model of solve_weekly_schedule (app/engine/solver.py): the CP model   *)
(* it compiles from a SchedulerInput, the external solver's answer as a    *)
(* nondeterministic choice among the assignments that satisfy the hard     *)
(* constraints, and the response built from the solver's values.           *)
(*                                                                         *)
(* Staff ids are the positions 1..n of the staff list (ids are unique);    *)
(* input.staff[u] is the role of staff member u.  Days are 0-based as in   *)
(* the code (DAYS), x[d+1] holds the pairs <<u, s>> whose boolean variable *)
(* x[(u, d, s)] is 1.  The nested requirements dict is flattened, in       *)
(* iteration order, to a sequence of [shift, role, required] entries.      *)
(***************************************************************************)
EXTENDS Integers, Sequences, FiniteSets, TLC

VARIABLES pc, input, model, x, unmet, acc, status, out, run, prev

vars == <<pc, input, model, x, unmet, acc, status, out, run, prev>>

None == "None"

\* ------------------------------------------------------------------ bounds
MaxReq == 2
MaxShiftCap == 1
MaxIdle == 9
MaxNurses == 4

\* ------------------------------------------------------- program constants
CoverageWeight == 1000
ShiftWeight == 10
NightWeight == 5

DayLabels == <<"Mon", "Tue", "Wed", "Thu", "Fri", "Sat", "Sun">>

\* ----------------------------------------------------------------- helpers
RECURSIVE SumOver(_, _)
SumOver(S, f) ==
    IF S = {} THEN 0
    ELSE LET e == CHOOSE e \in S : TRUE IN f[e] + SumOver(S \ {e}, f)

Max(a, b) == IF a >= b THEN a ELSE b

SetMin(S) == CHOOSE m \in S : \A o \in S : m <= o

\* str.lower() on the shift names the inputs use
Lower(s) ==
    CASE s = "Night" -> "night"
      [] s = "NIGHT" -> "night"
      [] s = "Day" -> "day"
      [] s = "A" -> "a"
      [] s = "A-B" -> "a-b"
      [] OTHER -> s

\* ---------------------------------------------------------- model building
DAYS(inp) == 0 .. (Len(inp.days) - 1)

SHIFT_NAMES(inp) == DOMAIN inp.shifts

staff_ids(inp) == 1 .. Len(inp.staff)

roles(inp) == inp.staff

ReqKeys(inp) == 1 .. Len(inp.requirements)

\* dict.get(role) is not None
HasLimit(caps, role) == role \in DOMAIN caps

\* a bug: the upper bound of the domain is exclusive
UnmetDomain_Exclusive(inp, k) == 0 .. (inp.requirements[k].required - 1)

\* the domain NewIntVar(0, required) gives unmet[(d, shift, role)]
UnmetDomain(inp, k) == 0 .. inp.requirements[k].required

\* sum(x[(u, d, shift)] for u in staff_ids if roles[u] == role)
RoleCount(inp, c, shift, role) ==
    Cardinality({u \in staff_ids(inp) : roles(inp)[u] = role /\ <<u, shift>> \in c})

\* a bug: the bound of constraint 1 is 2
OneShiftPerDay_TwoAllowed(inp, c) ==
    \A u \in staff_ids(inp) :
        Cardinality({s \in SHIFT_NAMES(inp) : <<u, s>> \in c}) <= 2

\* constraint 1: sum(x[(u, d, s)] for s in SHIFT_NAMES) <= 1
OneShiftPerDay(inp, c) ==
    \A u \in staff_ids(inp) :
        Cardinality({s \in SHIFT_NAMES(inp) : <<u, s>> \in c}) <= 1

\* constraint 2: role count + unmet == required
Coverage(inp, c, um) ==
    \A k \in ReqKeys(inp) :
        LET e == inp.requirements[k] IN
        RoleCount(inp, c, e.shift, e.role) + um[k] = e.required

\* constraint 3: sum of u's assignment variables over the week <= limit
MaxShifts(inp, tot) ==
    \A u \in staff_ids(inp) :
        HasLimit(inp.max_shifts_per_week, roles(inp)[u]) =>
            tot[u] <= inp.max_shifts_per_week[roles(inp)[u]]

\* a bug: the limit is looked up by user id, never a key of the dict, so that
\* constraint 4 is never added
MaxHours_Ignored(inp, hrs) == TRUE

\* constraint 4: sum of x * shift hours over the week <= hour_limit
MaxHours(inp, hrs) ==
    \A u \in staff_ids(inp) :
        HasLimit(inp.max_weekly_hours, roles(inp)[u]) =>
            hrs[u] <= inp.max_weekly_hours[roles(inp)[u]]

\* a bug: the name test of constraint 5 is made on the lower-cased names
NoConsecutiveNight_LowerCase(inp, last, c) ==
    \A u \in staff_ids(inp) :
        "Night" \in {Lower(s) : s \in SHIFT_NAMES(inp)} =>
            (IF u \in last THEN 1 ELSE 0) + (IF <<u, "Night">> \in c THEN 1 ELSE 0) <= 1

\* constraint 5: x[(u, d, "Night")] + x[(u, d + 1, "Night")] <= 1, added only
\* when "Night" in SHIFT_NAMES; last holds the staff on "Night" the day before
NoConsecutiveNight(inp, last, c) ==
    \A u \in staff_ids(inp) :
        "Night" \in SHIFT_NAMES(inp) =>
            (IF u \in last THEN 1 ELSE 0) + (IF <<u, "Night">> \in c THEN 1 ELSE 0) <= 1

\* int(avg_shifts[role]) = int(len(DAYS) / max(len(users), 1))
Target(inp, role) ==
    Len(inp.days) \div
        Max(Cardinality({u \in staff_ids(inp) : roles(inp)[u] = role}), 1)

\* the lower bound the two constraints put on shift_dev[u]
ShiftDevBound(inp, total_shifts, u) ==
    Max(total_shifts - Target(inp, roles(inp)[u]),
        Target(inp, roles(inp)[u]) - total_shifts)

\* the linear sums the constraints and the objective read, after d days
ZeroAcc(inp) ==
    [tot |-> [u \in staff_ids(inp) |-> 0],
     night |-> [u \in staff_ids(inp) |-> 0],
     hrs |-> [u \in staff_ids(inp) |-> 0],
     last |-> {},
     U |-> 0]

ShiftOf(inp, c, u) == {s \in SHIFT_NAMES(inp) : <<u, s>> \in c}

AddDay(inp, a, c, um) ==
    [tot |-> [u \in staff_ids(inp) |-> a.tot[u] + Cardinality(ShiftOf(inp, c, u))],
     night |-> [u \in staff_ids(inp) |->
                  a.night[u] + Cardinality({s \in ShiftOf(inp, c, u) : Lower(s) = "night"})],
     hrs |-> [u \in staff_ids(inp) |->
                  a.hrs[u] + SumOver(ShiftOf(inp, c, u), inp.shifts)],
     last |-> {u \in staff_ids(inp) : <<u, "Night">> \in c},
     U |-> a.U + SumOver(ReqKeys(inp), um)]

\* the values of one day's variables that every hard constraint allows, given
\* the sums of the days before
DayOK(inp, a, c, um) ==
    /\ OneShiftPerDay(inp, c)
    /\ \A k \in ReqKeys(inp) : um[k] \in UnmetDomain(inp, k)
    /\ Coverage(inp, c, um)
    /\ NoConsecutiveNight(inp, a.last, c)
    /\ LET n == AddDay(inp, a, c, um) IN
       MaxShifts(inp, n.tot) /\ MaxHours(inp, n.hrs)

MaxRequired(inp) ==
    IF ReqKeys(inp) = {} THEN 0
    ELSE CHOOSE m \in {inp.requirements[k].required : k \in ReqKeys(inp)} :
             \A k \in ReqKeys(inp) : inp.requirements[k].required <= m

\* the values one day's x and unmet variables range over
DayValues(inp) ==
    (SUBSET (staff_ids(inp) \X SHIFT_NAMES(inp)))
        \X [ReqKeys(inp) -> 0 .. Max(MaxRequired(inp), 0)]

DaySucc(inp, a) ==
    {AddDay(inp, a, v[1], v[2]) : v \in {w \in DayValues(inp) : DayOK(inp, a, w[1], w[2])}}

RECURSIVE Reach(_, _)
Reach(inp, d) ==
    IF d = 0 THEN {ZeroAcc(inp)}
    ELSE UNION {DaySucc(inp, a) : a \in Reach(inp, d - 1)}

\* the least values the constraints allow the fairness variables
MinShiftDev(inp, a) ==
    SumOver(staff_ids(inp), [u \in staff_ids(inp) |-> ShiftDevBound(inp, a.tot[u], u)])

MinNightDev(inp, a) == SumOver(staff_ids(inp), a.night)

\* 1000 * sum(unmet) + 10 * sum(shift_dev) + 5 * sum(night_dev)
Objective(U, sd, nd) == CoverageWeight * U + ShiftWeight * sd + NightWeight * nd

TightObjective(inp, a) == Objective(a.U, MinShiftDev(inp, a), MinNightDev(inp, a))

\* the compiled model, by what the solver can say of it: the outcomes
\* (total unmet, least objective) of its feasible assignments and the least
\* objective value (no value when nothing is feasible)
CompileModel(inp) ==
    LET finals == Reach(inp, Len(inp.days))
        outcomes == {[U |-> a.U, obj |-> TightObjective(inp, a)] : a \in finals}
    IN [feasible |-> outcomes,
        best |-> IF outcomes = {} THEN {} ELSE {SetMin({o.obj : o \in outcomes})}]

\* ------------------------------------------------------------ the response
IdSeq(inp) == [i \in staff_ids(inp) |-> i]

\* the list assigned: the staff, in staff order, whose x[(u, d_idx, s)] is 1
Assigned(inp, xs, d_idx, s) ==
    SelectSeq(IdSeq(inp), LAMBDA u : <<u, s>> \in xs[d_idx + 1])

\* the defaultdict summary: an entry exists for the staff the loop touched
Touched(inp, xs) ==
    {u \in staff_ids(inp) :
        \E d \in DAYS(inp) : \E s \in SHIFT_NAMES(inp) : <<u, s>> \in xs[d + 1]}

Summary(inp, xs) ==
    [u \in Touched(inp, xs) |->
        [userId |-> u,
         role |-> roles(inp)[u],
         totalShifts |->
            Cardinality({p \in DAYS(inp) \X SHIFT_NAMES(inp) : <<u, p[2]>> \in xs[p[1] + 1]}),
         nightShifts |->
            Cardinality({p \in DAYS(inp) \X SHIFT_NAMES(inp) :
                            <<u, p[2]>> \in xs[p[1] + 1] /\ Lower(p[2]) = "night"})]]

\* f"{input_data.days[d]}-{shift}-{role}"
Key(inp, d, k) ==
    inp.days[d + 1] \o "-" \o inp.requirements[k].shift \o "-" \o inp.requirements[k].role

\* the dict comprehension over unmet.items(): the entries with a positive
\* value, in insertion order; a later entry with the same key replaces an
\* earlier one
UnmetDemand(inp, ums) ==
    LET items == {[key |-> Key(inp, p[1], p[2]),
                   order |-> p[1] * Len(inp.requirements) + p[2],
                   value |-> ums[p[1] + 1][p[2]]] :
                     p \in {q \in DAYS(inp) \X ReqKeys(inp) : ums[q[1] + 1][q[2]] > 0}}
        last(key) ==
            CHOOSE i \in items :
                i.key = key /\ \A j \in items : j.key = key => j.order <= i.order
    IN [key \in {i.key : i \in items} |-> last(key).value]

\* a bug: FEASIBLE is reported as SUCCESS too
BuildResponse_AlwaysSuccess(inp, st, xs, ums) ==
    [status |-> "SUCCESS",
     schedule |->
        [i \in 1 .. Len(inp.days) |->
            [day |-> inp.days[i],
             shifts |-> [s \in SHIFT_NAMES(inp) |-> Assigned(inp, xs, i - 1, s)]]],
     summary |-> Summary(inp, xs),
     violations |-> [unmetDemand |-> UnmetDemand(inp, ums)]]

BuildResponse(inp, st, xs, ums) ==
    [status |-> IF st = "OPTIMAL" THEN "SUCCESS" ELSE "PARTIAL",
     schedule |->
        [i \in 1 .. Len(inp.days) |->
            [day |-> inp.days[i],
             shifts |-> [s \in SHIFT_NAMES(inp) |-> Assigned(inp, xs, i - 1, s)]]],
     summary |-> Summary(inp, xs),
     violations |-> [unmetDemand |-> UnmetDemand(inp, ums)]]

FailedResponse == [status |-> "FAILED", message |-> "No feasible schedule found"]

\* each fairness variable ranges from its bound to len(DAYS), so their sum
\* takes every value from the sum of the bounds to len(staff) * len(DAYS)
DevSums(inp, least) == least .. (Len(inp.staff) * Len(inp.days))

\* the statuses the solver can give a solution with the sums a: OPTIMAL only
\* when it attains the least objective value, FEASIBLE when the time budget
\* ends the search before the proof
SolutionStatus(inp, a, best) ==
    IF TightObjective(inp, a) \in best THEN {"OPTIMAL", "FEASIBLE"} ELSE {"FEASIBLE"}

\* the values the objective can have in a solution of status st with the sums
\* a: the least value when OPTIMAL, otherwise any value the fairness
\* variables allow (the code never reads them)
ObjectiveValues(inp, a, st, best) ==
    IF st = "OPTIMAL" THEN best
    ELSE {Objective(a.U, sd, nd) :
            sd \in DevSums(inp, MinShiftDev(inp, a)),
            nd \in DevSums(inp, MinNightDev(inp, a))}

\* ------------------------------------------------------------------ inputs
MkInput(staff, shifts, requirements, msw, mwh) ==
    [days |-> DayLabels,
     shifts |-> shifts,
     requirements |-> requirements,
     staff |-> staff,
     max_shifts_per_week |-> msw,
     max_weekly_hours |-> mwh]

NoCaps == [r \in {} |-> 0]

Cap(role, n) == [r \in {role} |-> n]

DayNight == [s \in {"Day", "Night"} |-> IF s = "Day" THEN 8 ELSE 12]

DayOnly == [s \in {"Day"} |-> 8]

Entry(shift, role, required) == [shift |-> shift, role |-> role, required |-> required]

\* the requirement lists over the given (shift, role) pairs: each pair absent
\* or present with a count in 0..MaxReq, in the order of pairs
RECURSIVE ReqLists(_)
ReqLists(pairs) ==
    IF pairs = <<>> THEN {<<>>}
    ELSE LET rest == ReqLists(Tail(pairs)) IN
         rest \cup
         {<<Entry(Head(pairs)[1], Head(pairs)[2], n)>> \o r : n \in 0 .. MaxReq, r \in rest}

\* the caps of one role: none, or a cap in the given set
CapChoices(role, values) == {NoCaps} \cup {Cap(role, n) : n \in values}

ShiftCaps == 0 .. MaxShiftCap

HourCaps == {20, 24}

NightNames == {"Night", "night"}

WithNight(name) == [s \in {"Day", name} |-> IF s = "Day" THEN 8 ELSE 12]

\* one nurse, a day shift and a night shift
OneNurseWith(nn) ==
    {MkInput(<<"Nurse">>, WithNight(nn), rq, cp[1], cp[2]) :
        rq \in ReqLists(<<<<"Day", "Nurse">>, <<nn, "Nurse">>>>),
        cp \in (CapChoices("Nurse", ShiftCaps) \X CapChoices("Nurse", HourCaps))
                  \ {<<NoCaps, NoCaps>>}}

OneNurseInputs == UNION {OneNurseWith(nn) : nn \in NightNames}

\* one nurse without caps, one required on either shift
FreeInputs ==
    {MkInput(<<"Nurse">>, WithNight(nn),
             <<Entry("Day", "Nurse", 1), Entry(nn, "Nurse", 1)>>, NoCaps, NoCaps) :
        nn \in NightNames}

\* a nurse and a doctor on one shift, each role with a weekly shift cap
TwoRoleInputs ==
    {MkInput(<<"Nurse", "Doctor">>, DayOnly, rq, msw, NoCaps) :
        rq \in ReqLists(<<<<"Day", "Nurse">>, <<"Day", "Doctor">>>>),
        msw \in [{"Nurse", "Doctor"} -> ShiftCaps]}

\* two nurses on one shift
TwoNurseInputs ==
    {MkInput(<<"Nurse", "Nurse">>, DayOnly, rq, msw, NoCaps) :
        rq \in ReqLists(<<<<"Day", "Nurse">>>>),
        msw \in {Cap("Nurse", n) : n \in ShiftCaps}}

\* shift and role names that hold the separator of the violation keys
HyphenShifts == [s \in {"A", "A-B"} |-> 8]

HyphenInputs ==
    {MkInput(<<"B-C", "C">>, HyphenShifts, rq, msw, NoCaps) :
        rq \in ReqLists(<<<<"A", "B-C">>, <<"A-B", "C">>>>),
        msw \in [{"B-C", "C"} -> {0, 1}]}

MainInputs ==
    OneNurseInputs \cup FreeInputs \cup TwoRoleInputs \cup TwoNurseInputs \cup HyphenInputs

InitWith(inputs) ==
    /\ input \in inputs
    /\ pc = "compile"
    /\ model = None
    /\ x = <<>>
    /\ unmet = <<>>
    /\ acc = None
    /\ status = None
    /\ out = None
    /\ run = 1
    /\ prev = None

Init == InitWith(MainInputs)

\* ----------------------------------------------------------------- actions
\* lines 16-131: the variables, the constraints and the objective
Compile ==
    /\ pc = "compile"
    /\ model' = CompileModel(input)
    /\ acc' = ZeroAcc(input)
    /\ pc' = "search"
    /\ UNCHANGED <<input, x, unmet, status, out, run, prev>>

\* the solver's search fixes the variables of the next day to values every
\* hard constraint allows
AssignDay ==
    /\ pc = "search"
    /\ Len(x) < Len(input.days)
    /\ \E v \in DayValues(input) :
          /\ DayOK(input, acc, v[1], v[2])
          /\ x' = Append(x, v[1])
          /\ unmet' = Append(unmet, v[2])
          /\ acc' = AddDay(input, acc, v[1], v[2])
    /\ UNCHANGED <<pc, input, model, status, out, run, prev>>

\* solver.Solve returns OPTIMAL or FEASIBLE with a value for every variable,
\* and the roster is built from the values
Respond ==
    /\ pc = "search"
    /\ Len(x) = Len(input.days)
    /\ \E st \in SolutionStatus(input, acc, model.best) :
          /\ status' = st
          /\ out' = BuildResponse(input, st, x, unmet)
    /\ pc' = "done"
    /\ UNCHANGED <<input, model, x, unmet, acc, run, prev>>

\* solver.Solve returns INFEASIBLE, or UNKNOWN when the time budget ends
\* before a first solution: no variable has a value
RespondFailed ==
    /\ pc = "search"
    /\ status' = IF model.feasible = {} THEN "INFEASIBLE" ELSE "UNKNOWN"
    /\ x' = <<>>
    /\ unmet' = <<>>
    /\ acc' = ZeroAcc(input)
    /\ out' = FailedResponse
    /\ pc' = "done"
    /\ UNCHANGED <<input, model, run, prev>>

Next == Compile \/ AssignDay \/ Respond \/ RespondFailed

Spec == Init /\ [][Next]_vars

\* the sum of the reported shortfalls of a response
ReportedTotal(resp) ==
    IF resp.status = "FAILED" THEN 0
    ELSE SumOver(DOMAIN resp.violations.unmetDemand, resp.violations.unmetDemand)

\* the input with the headcount of requirement entry k raised by one
Bump(inp, k) == [inp EXCEPT !.requirements[k].required = @ + 1]

\* what a caller keeps of a finished request
Kept(k) ==
    [status |-> out.status,
     objectives |->
        IF out.status = "FAILED" THEN {}
        ELSE ObjectiveValues(input, acc, status, model.best),
     U |-> acc.U,
     unmetDemand |-> IF out.status = "FAILED" THEN <<>> ELSE out.violations.unmetDemand,
     bumped |-> k]

\* a second request: the same input again, or the input with one requirement
\* raised; requests share no state, each builds its own model
NextRequest ==
    /\ pc = "done"
    /\ run = 1
    /\ \E k \in {0} \cup ReqKeys(input) :
          /\ prev' = Kept(k)
          /\ input' = IF k = 0 THEN input ELSE Bump(input, k)
    /\ run' = 2
    /\ pc' = "compile"
    /\ model' = None
    /\ x' = <<>>
    /\ unmet' = <<>>
    /\ acc' = None
    /\ status' = None
    /\ out' = None

\* two nurses who may each work one shift a week, and one nurse with a day
\* and a night shift
PairInputs ==
    {MkInput(<<"Nurse", "Nurse">>, DayOnly, rq, Cap("Nurse", 1), NoCaps) :
        rq \in ReqLists(<<<<"Day", "Nurse">>>>)}
    \cup
    {MkInput(<<"Nurse">>, DayNight, rq, Cap("Nurse", 1), NoCaps) :
        rq \in ReqLists(<<<<"Day", "Nurse">>, <<"Night", "Nurse">>>>)}

InitPair == InitWith(PairInputs)

NextPair == Next \/ NextRequest

SpecPair == InitPair /\ [][NextPair]_vars

\* one nurse who is required every day, and k doctors whose weekly cap is 0
IdleInputs ==
    {MkInput(<<"Nurse">> \o [i \in 1 .. k |-> "Doctor"], DayOnly,
             <<Entry("Day", "Nurse", 1)>>, Cap("Doctor", 0), NoCaps) :
        k \in 0 .. MaxIdle}

InitIdle == InitWith(IdleInputs)

SpecIdle == InitIdle /\ [][Next]_vars

\* Scenario A with n nurses: one day shift requiring one nurse, no caps
FairInputs ==
    {MkInput([i \in 1 .. n |-> "Nurse"], DayOnly,
             <<Entry("Day", "Nurse", 1)>>, NoCaps, NoCaps) :
        n \in 1 .. MaxNurses}

InitFair == InitWith(FairInputs)

SpecFair == InitFair /\ [][Next]_vars

\* ------------------------------------------------------- reading a response
Solved == pc = "done" /\ out.status \in {"SUCCESS", "PARTIAL"}

\* the staff list of (day d, shift s) in the roster
Listed(d, s) == out.schedule[d + 1].shifts[s]

IsListed(u, d, s) == \E i \in 1 .. Len(Listed(d, s)) : Listed(d, s)[i] = u

\* the number of staff ids of a role listed under (d, s)
ListedCount(d, s, role) ==
    Cardinality({i \in 1 .. Len(Listed(d, s)) : input.staff[Listed(d, s)[i]] = role})

\* the shortfall reported under a key, 0 when the key is absent
Reported(key) ==
    IF key \in DOMAIN out.violations.unmetDemand
    THEN out.violations.unmetDemand[key] ELSE 0

SlotKey(d, shift, role) == input.days[d + 1] \o "-" \o shift \o "-" \o role

\* the (day, shift) lists that hold u
ListsOf(u) == {p \in DAYS(input) \X SHIFT_NAMES(input) : IsListed(u, p[1], p[2])}

\* ------------------------------------------------------------------- claims

\* C1: in every SUCCESS or PARTIAL output, for every day and every requirement
\* entry, the staff of the role listed under (day, shift) plus the shortfall
\* reported under "<day>-<shift>-<role>" (0 when absent) equals the required
\* headcount, and every reported shortfall is positive.
C1_ReportedCoverage ==
    Solved =>
        /\ \A d \in DAYS(input) : \A k \in ReqKeys(input) :
              LET e == input.requirements[k] IN
              ListedCount(d, e.shift, e.role) + Reported(SlotKey(d, e.shift, e.role))
                  = e.required
        /\ \A key \in DOMAIN out.violations.unmetDemand :
              out.violations.unmetDemand[key] > 0

\* C2: in every SUCCESS or PARTIAL output no staff member is listed under more
\* than one shift type of the same day.
C2_NoDoubleBooking ==
    Solved =>
        \A u \in staff_ids(input) : \A d \in DAYS(input) :
            Cardinality({s \in SHIFT_NAMES(input) : IsListed(u, d, s)}) <= 1

\* a roster in which one staff member works two different shift types on
\* different days
C2_Witness ==
    /\ Solved
    /\ \E u \in staff_ids(input) : \E p, q \in ListsOf(u) : p[2] # q[2]

\* C3: in every SUCCESS or PARTIAL output no staff member is listed under the
\* shift named "Night" on days i and i+1, for i = 0..5.
C3_NoConsecutiveNight ==
    Solved /\ "Night" \in SHIFT_NAMES(input) =>
        \A u \in staff_ids(input) : \A i \in 0 .. 5 :
            ~(IsListed(u, i, "Night") /\ IsListed(u, i + 1, "Night"))

\* a roster with two nights of one staff member two days apart
C3_Witness ==
    /\ Solved
    /\ "Night" \in SHIFT_NAMES(input)
    /\ \E u \in staff_ids(input) : \E i \in 0 .. 4 :
          IsListed(u, i, "Night") /\ IsListed(u, i + 2, "Night")

\* C4: in every SUCCESS or PARTIAL output a staff member whose role has a
\* max_shifts_per_week entry is listed at most that many times over the week
\* (never, for a cap of 0), and one whose role has a max_weekly_hours entry
\* has at most that many hours of listed shifts.
C4_CapsRespected ==
    Solved =>
        \A u \in staff_ids(input) :
            /\ input.staff[u] \in DOMAIN input.max_shifts_per_week =>
                  Cardinality(ListsOf(u)) <= input.max_shifts_per_week[input.staff[u]]
            /\ input.staff[u] \in DOMAIN input.max_weekly_hours =>
                  SumOver(ListsOf(u), [p \in ListsOf(u) |-> input.shifts[p[2]]])
                      <= input.max_weekly_hours[input.staff[u]]

\* a roster in which a capped staff member works exactly the weekly cap, and
\* the hours of a staff member with an hour cap come within one shift of it
C4_Witness ==
    /\ Solved
    /\ \E u \in staff_ids(input) :
          /\ input.staff[u] \in DOMAIN input.max_shifts_per_week
          /\ input.max_shifts_per_week[input.staff[u]] > 0
          /\ Cardinality(ListsOf(u)) = input.max_shifts_per_week[input.staff[u]]
    /\ \E u \in staff_ids(input) :
          /\ input.staff[u] \in DOMAIN input.max_weekly_hours
          /\ SumOver(ListsOf(u), [p \in ListsOf(u) |-> input.shifts[p[2]]]) + 12
                > input.max_weekly_hours[input.staff[u]]

\* C9: in every SUCCESS or PARTIAL output the summary holds one entry for
\* every staff member of the input, with totalShifts the number of (day,
\* shift) lists holding the id and nightShifts the number of days the id is
\* listed under the shift named "Night".
C9_SummaryPerStaff ==
    Solved =>
        /\ DOMAIN out.summary = staff_ids(input)
        /\ \A u \in DOMAIN out.summary :
              /\ out.summary[u].userId = u
              /\ out.summary[u].totalShifts = Cardinality(ListsOf(u))
              /\ out.summary[u].nightShifts =
                    Cardinality({p \in ListsOf(u) : p[2] = "Night"})

\* the assignment with every x false and every unmet equal to its requirement
AllZeroFeasible(inp) ==
    /\ DayOK(inp, ZeroAcc(inp), {}, [k \in ReqKeys(inp) |-> inp.requirements[k].required])
    /\ \A u \in staff_ids(inp) : ShiftDevBound(inp, 0, u) \in 0 .. Len(inp.days)

\* C10: the compiled model always has a feasible solution (all assignment
\* variables false, every unmet variable at its requirement), so FAILED is
\* returned only when the solver found no solution within the time budget.
C10_AlwaysFeasible ==
    /\ AllZeroFeasible(input)
    /\ pc # "compile" => model.feasible # {}
    /\ pc = "done" /\ out.status = "FAILED" => status = "UNKNOWN"

\* a FAILED response for an input that asks for more staff than there are
C10_Witness ==
    /\ pc = "done"
    /\ out.status = "FAILED"
    /\ \E k \in ReqKeys(input) : input.requirements[k].required > Len(input.staff)

\* the greatest value the objective can have with total unmet U
TopObjective(inp, U) ==
    Objective(U, Len(inp.staff) * Len(inp.days), Len(inp.staff) * Len(inp.days))

SetMax(S) == CHOOSE m \in S : \A o \in S : o <= m

\* C5: of two assignments of the model's variables that satisfy every hard
\* constraint, the one with strictly lower total unmet demand has a strictly
\* lower objective value, whatever the fairness variables hold and however
\* many staff there are.  Here one assignment is the solution returned, the
\* other any feasible assignment of the compiled model.
C5_WeightDominance ==
    Solved =>
        LET mine == ObjectiveValues(input, acc, status, model.best) IN
        \A b \in model.feasible :
            /\ acc.U < b.U => SetMax(mine) < b.obj
            /\ b.U < acc.U => TopObjective(input, b.U) < SetMin(mine)

\* two finished requests on the same input
SameInputTwice == pc = "done" /\ run = 2 /\ prev.bumped = 0

RaisedRequirement == pc = "done" /\ run = 2 /\ prev.bumped # 0

ReportedIn(map, key) == IF key \in DOMAIN map THEN map[key] ELSE 0

Ceil7(n) == (Len(input.days) + n - 1) \div n

\* C8: with n staff of one role, one shift "Day" requiring one of them every
\* day and no caps, every SUCCESS output reports no unmet demand and gives
\* every staff member floor(7/n) or ceil(7/n) shifts.
C8_FairBalance ==
    pc = "done" /\ out.status = "SUCCESS" =>
        /\ DOMAIN out.violations.unmetDemand = {}
        /\ \A u \in staff_ids(input) :
              Cardinality(ListsOf(u)) \in
                  {Len(input.days) \div Len(input.staff), Ceil7(Len(input.staff))}

====
